---------------------------- MODULE Spec2Model ----------------------------
(***************************************************************************)
(* DeliveryStrategy (src/strategies/delivery.js): the per-turn decision    *)
(* module of an agent that carries parcels to a delivery tile.  The model  *)
(* holds the strategy's fields, the beliefs it reads, and one action per   *)
(* public method.  Beliefs and Pathfinder are collaborators whose code is  *)
(* not part of the strategy; they are modelled from their contract.        *)
(***************************************************************************)
EXTENDS Integers, Sequences, FiniteSets, TLC

VARIABLES
    \* --- beliefs (read-only to the strategy) ---
    myId,               \* beliefs.myId: an agent id, or NullId
    myPosition,         \* beliefs.myPosition: a tile, or Null
    agents,             \* beliefs.agents: set of AgentRecords, coordinates in half tiles
    availableParcels,   \* beliefs.availableParcels: sequence of ParcelRecords
    deliveryTiles,      \* the tiles beliefs.isDeliveryTile answers true for
    \* --- DeliveryStrategy fields ---
    carriedParcels,     \* this.carriedParcels
    deliveryPath,       \* this.deliveryPath
    blockedTargetTile,  \* this.blockedTargetTile
    blockedCounter,     \* this.blockedCounter
    deliveryThreshold,  \* this.deliveryThreshold
    maxDetourDistance,  \* this.maxDetourDistance
    BLOCKED_TIMEOUT,    \* this.BLOCKED_TIMEOUT
    \* --- observation of the last call (history, never read by the strategy) ---
    last,
    \* --- log of a delivery trip (history, used by the scenario specifications) ---
    trip

beliefVars == <<myId, myPosition, agents, availableParcels, deliveryTiles>>
configVars == <<deliveryThreshold, maxDetourDistance, BLOCKED_TIMEOUT>>
fieldVars  == <<carriedParcels, deliveryPath, blockedTargetTile, blockedCounter>>
vars == <<beliefVars, configVars, fieldVars, last, trip>>

----------------------------------------------------------------------------
(* Bounds of the model *)

\* Largest configured BLOCKED_TIMEOUT explored (from 1).
MaxTimeout == 3
\* Largest configured MAX_DETOUR_DISTANCE explored (from 1).
MaxDetour == 2
\* Longest parcel list given to evaluateDetourParcels in SpecDetour.
MaxParcels == 2
\* Number of consecutive turns followed in SpecBlocked.
MaxCalls == 4

----------------------------------------------------------------------------
(* Values *)

\* JavaScript null, for a position, a parcel or an action.
Null == [null |-> TRUE]
\* JavaScript null, for an agent id.
NullId == "null"
\* JavaScript null, for a primitive move.
NullMove == "none"
Me == "me"
Other == "other"

Tile(x, y) == [x |-> x, y |-> y]

\* The map: a 3 x 2 block of walkable tiles and, behind a wall at (3,0),
\* one walkable tile (4,0) that no route reaches.
Block == {Tile(x, y) : x \in 0..2, y \in 0..1}
Island == Tile(4, 0)
Walkable == Block \cup {Island}

Abs(n) == IF n < 0 THEN -n ELSE n

\* ACTIONS of utils.js: the primitive moves and the two parcel actions.
Putdown == [action |-> "putdown"]
Pickup(id) == [action |-> "pickup", target |-> id]
Move(dir) == [action |-> dir]
Directions == <<"up", "down", "left", "right">>
IsMove(ret) == ret # Null /\ ret.action \in {"up", "down", "left", "right"}

\* The tile one step from t in direction dir.
StepTo(t, dir) ==
    CASE dir = "up"    -> Tile(t.x, t.y + 1)
      [] dir = "down"  -> Tile(t.x, t.y - 1)
      [] dir = "left"  -> Tile(t.x - 1, t.y)
      [] dir = "right" -> Tile(t.x + 1, t.y)

----------------------------------------------------------------------------
(* Pathfinder: breadth-first shortest routes on the map *)

Neighbours(t) == {StepTo(t, Directions[i]) : i \in 1..4} \cap Walkable

\* Distance to `target` of every tile that reaches it: tiles of `front` are
\* at distance k, `seen` are the tiles already numbered.
RECURSIVE Layers(_, _, _)
Layers(front, seen, k) ==
    IF front = {} THEN [t \in {} |-> 0]
    ELSE LET next == (UNION {Neighbours(t) : t \in front}) \ seen
         IN  [t \in front |-> k] @@ Layers(next, seen \cup next, k + 1)

DistTo == [target \in Walkable |-> Layers({target}, {target}, 0)]

\* The shortest route from `from` to `to`, the origin excluded and the
\* destination included; ties are broken by the order of Directions.
RECURSIVE Route(_, _)
Route(from, to) ==
    IF from = to \/ from \notin DOMAIN DistTo[to] THEN <<>>
    ELSE LET d == DistTo[to]
             i == CHOOSE i \in 1..4 :
                    /\ StepTo(from, Directions[i]) \in DOMAIN d
                    /\ d[StepTo(from, Directions[i])] = d[from] - 1
                    /\ \A j \in 1..(i - 1) :
                          ~ (/\ StepTo(from, Directions[j]) \in DOMAIN d
                             /\ d[StepTo(from, Directions[j])] = d[from] - 1)
         IN  <<StepTo(from, Directions[i])>> \o Route(StepTo(from, Directions[i]), to)

Routes == [from \in Walkable, to \in Walkable |-> Route(from, to)]

\* pathfinder.findPath(x1, y1, x2, y2): empty when unreachable or when the
\* origin is the destination.
findPath(x1, y1, x2, y2) ==
    IF Tile(x1, y1) \in Walkable /\ Tile(x2, y2) \in Walkable
    THEN Routes[Tile(x1, y1), Tile(x2, y2)]
    ELSE <<>>

\* pathfinder.getActionToNextStep(curX, curY, nextX, nextY): the primitive
\* move into an adjacent tile, NullMove when the tiles are not adjacent.
getActionToNextStep(curX, curY, nextX, nextY) ==
    IF \E i \in 1..4 : StepTo(Tile(curX, curY), Directions[i]) = Tile(nextX, nextY)
    THEN Directions[CHOOSE i \in 1..4 :
                        StepTo(Tile(curX, curY), Directions[i]) = Tile(nextX, nextY)]
    ELSE NullMove

----------------------------------------------------------------------------
(* Beliefs *)

\* beliefs.isDeliveryTile(x, y)
isDeliveryTile(x, y) == Tile(x, y) \in deliveryTiles

Manhattan(x1, y1, x2, y2) == Abs(x1 - x2) + Abs(y1 - y2)

\* beliefs.calculateDistance(x, y): heuristic distance from the agent.
calculateDistance(x, y) == Manhattan(myPosition.x, myPosition.y, x, y)

\* Order in which the delivery tiles are listed (ties of the nearest lookup
\* go to the first listed).
TileRank(t) == 10 * t.x + t.y

\* beliefs.getClosestDeliveryTile(x, y): the delivery tile of least
\* heuristic distance, Null when no delivery tile is known.
getClosestDeliveryTile(x, y) ==
    IF deliveryTiles = {} THEN Null
    ELSE CHOOSE d \in deliveryTiles :
            \A e \in deliveryTiles :
                \/ Manhattan(x, y, d.x, d.y) < Manhattan(x, y, e.x, e.y)
                \/ /\ Manhattan(x, y, d.x, d.y) = Manhattan(x, y, e.x, e.y)
                   /\ TileRank(d) <= TileRank(e)

\* Math.floor of a coordinate kept in half tiles (3 stands for 1.5).
MathFloor(h) == h \div 2


----------------------------------------------------------------------------
(* DeliveryStrategy: helpers *)

\* shouldDeliver()
shouldDeliver == Len(carriedParcels) > 0

\* isBlockedByOtherAgent comparing the coordinates without Math.floor.
isBlockedByOtherAgent_Untruncated(x, y) ==
    IF myId = NullId THEN FALSE
    ELSE \E agent \in agents :
            /\ agent.id # myId
            /\ agent.x = 2 * x
            /\ agent.y = 2 * y

\* isBlockedByOtherAgent(x, y)
isBlockedByOtherAgent(x, y) ==
    IF myId = NullId THEN FALSE
    ELSE \E agent \in agents :
            /\ agent.id # myId
            /\ MathFloor(agent.x) = x
            /\ MathFloor(agent.y) = y

\* isAtPosition(x1, y1, x2, y2)
isAtPosition(x1, y1, x2, y2) == x1 = x2 /\ y1 = y2

\* isPathLeadingTo(path, targetX, targetY)
isPathLeadingTo(path, targetX, targetY) ==
    IF Len(path) = 0 THEN FALSE
    ELSE LET finalStep == path[Len(path)]
         IN  finalStep.x = targetX /\ finalStep.y = targetY

----------------------------------------------------------------------------
(* DeliveryStrategy.evaluateDetourParcels *)

\* IsPotentialDetour without the reward threshold.
IsPotentialDetour_AnyReward(p) ==
    /\ p.carriedBy = NullId
    /\ calculateDistance(p.x, p.y) <= maxDetourDistance

\* The two filters that build potentialDetourParcels.
IsPotentialDetour(p) ==
    /\ p.carriedBy = NullId
    /\ p.reward > deliveryThreshold
    /\ calculateDistance(p.x, p.y) <= maxDetourDistance

potentialDetourParcels == SelectSeq(availableParcels, IsPotentialDetour)

\* A leg from (x1,y1) to (x2,y2) is usable unless findPath returns an empty
\* route between two different tiles.
LegReachable(x1, y1, x2, y2) ==
    ~ (Len(findPath(x1, y1, x2, y2)) = 0 /\ ~ isAtPosition(x1, y1, x2, y2))

\* addedSteps of a parcel, for the delivery tile chosen by the caller.
AddedSteps(parcel, deliveryTile) ==
    LET basePathLength ==
            Len(findPath(myPosition.x, myPosition.y, deliveryTile.x, deliveryTile.y))
        detourDistance ==
            Len(findPath(myPosition.x, myPosition.y, parcel.x, parcel.y))
        totalDistance ==
            detourDistance + Len(findPath(parcel.x, parcel.y, deliveryTile.x, deliveryTile.y))
    IN  totalDistance - basePathLength

\* ScoreBeats with >= for >: the last of equal scores wins.
ScoreBeats_LastWinsTies(parcel, best, deliveryTile) ==
    \/ best = Null
    \/ parcel.reward * (AddedSteps(best, deliveryTile) + 1)
          >= best.reward * (AddedSteps(parcel, deliveryTile) + 1)

\* detourScore > bestDetourScore, where bestDetourScore is that of `best`
\* (-Infinity when best is Null).  The scores are reward / (addedSteps + 1);
\* routes are shortest, so addedSteps + 1 >= 1 and the quotients compare
\* as their cross products.
ScoreBeats(parcel, best, deliveryTile) ==
    \/ best = Null
    \/ parcel.reward * (AddedSteps(best, deliveryTile) + 1)
          > best.reward * (AddedSteps(parcel, deliveryTile) + 1)

\* The for loop over potentialDetourParcels, from index i on, with the best
\* parcel so far.
RECURSIVE DetourLoop(_, _, _, _)
DetourLoop(cands, i, best, deliveryTile) ==
    IF i > Len(cands) THEN best
    ELSE LET parcel == cands[i]
             skip == \/ ~ LegReachable(myPosition.x, myPosition.y, parcel.x, parcel.y)
                     \/ ~ LegReachable(parcel.x, parcel.y, deliveryTile.x, deliveryTile.y)
                     \/ ~ (AddedSteps(parcel, deliveryTile) <= maxDetourDistance)
         IN  IF ~ skip /\ ScoreBeats(parcel, best, deliveryTile)
             THEN DetourLoop(cands, i + 1, parcel, deliveryTile)
             ELSE DetourLoop(cands, i + 1, best, deliveryTile)

\* evaluateDetourParcels(): the selected parcel, or Null.
evaluateDetourParcels ==
    LET deliveryTile == getClosestDeliveryTile(myPosition.x, myPosition.y)
    IN  IF deliveryTile = Null THEN Null
        ELSE IF ~ LegReachable(myPosition.x, myPosition.y, deliveryTile.x, deliveryTile.y)
        THEN Null
        ELSE DetourLoop(potentialDetourParcels, 1, Null, deliveryTile)

----------------------------------------------------------------------------
(* DeliveryStrategy.followDeliveryPath *)

\* What a call leaves in the fields it may write, what it returns, and the
\* branch it ended in.
Outcome(path, tile, counter, ret, branch) ==
    [deliveryPath |-> path, blockedTargetTile |-> tile, blockedCounter |-> counter,
     ret |-> ret, branch |-> branch]

\* StillBlocked giving up one turn late.
StillBlocked_LateTimeout(path, tile, counter) ==
    IF counter + 1 > BLOCKED_TIMEOUT
    THEN Outcome(<<>>, Null, 0, Null, "timeout")
    ELSE Outcome(path, tile, counter + 1, Null, "blockedSame")

\* StillBlocked that drops the step it waits for.
StillBlocked_DropsStep(path, tile, counter) ==
    IF counter + 1 >= BLOCKED_TIMEOUT
    THEN Outcome(<<>>, Null, 0, Null, "timeout")
    ELSE Outcome(Tail(path), tile, counter + 1, Null, "blockedSame")

\* Blocked on the tile recorded last turn: count, and give up at the timeout.
StillBlocked(path, tile, counter) ==
    IF counter + 1 >= BLOCKED_TIMEOUT
    THEN Outcome(<<>>, Null, 0, Null, "timeout")
    ELSE Outcome(path, tile, counter + 1, Null, "blockedSame")

\* NewlyBlocked with the counter carried over to the new tile.
NewlyBlocked_Accumulates(path, targetX, targetY) ==
    Outcome(path, Tile(targetX, targetY), blockedCounter + 1, Null, "blockedNew")

\* NewlyBlocked that records the tile and counts the turn only from the next.
NewlyBlocked_CountsFromZero(path, targetX, targetY) ==
    Outcome(path, Tile(targetX, targetY), 0, Null, "blockedNew")

\* Blocked on another tile than the one recorded (or none recorded).
NewlyBlocked(path, targetX, targetY) ==
    Outcome(path, Tile(targetX, targetY), 1, Null, "blockedNew")

\* TakeStep without the shift of the step taken.
TakeStep_KeepsStep(path, currentX, currentY) ==
    IF getActionToNextStep(currentX, currentY, path[1].x, path[1].y) # NullMove
    THEN Outcome(path, Null, 0,
                 Move(getActionToNextStep(currentX, currentY, path[1].x, path[1].y)),
                 "move")
    ELSE Outcome(<<>>, Null, 0, Null, "unresolved")

\* TakeStep that keeps the path when the step cannot be resolved.
TakeStep_KeepsUnresolved(path, currentX, currentY) ==
    IF getActionToNextStep(currentX, currentY, path[1].x, path[1].y) # NullMove
    THEN Outcome(Tail(path), Null, 0,
                 Move(getActionToNextStep(currentX, currentY, path[1].x, path[1].y)),
                 "move")
    ELSE Outcome(path, Null, 0, Null, "unresolved")

\* The first tile is free: reset the block state and take the step if the
\* pathfinder resolves it.
TakeStep(path, currentX, currentY) ==
    LET action == getActionToNextStep(currentX, currentY, path[1].x, path[1].y)
    IN  IF action # NullMove
        THEN Outcome(Tail(path), Null, 0, Move(action), "move")
        ELSE Outcome(<<>>, Null, 0, Null, "unresolved")

\* followDeliveryPath(currentX, currentY), on the path and block state given.
followDeliveryPath(path, tile, counter, currentX, currentY) ==
    IF Len(path) = 0 THEN Outcome(path, Null, 0, Null, "emptyPath")
    ELSE LET targetX == path[1].x
             targetY == path[1].y
         IN  IF isBlockedByOtherAgent(targetX, targetY)
             THEN IF tile # Null /\ tile.x = targetX /\ tile.y = targetY
                  THEN StillBlocked(path, tile, counter)
                  ELSE NewlyBlocked(path, targetX, targetY)
             ELSE TakeStep(path, currentX, currentY)

----------------------------------------------------------------------------
(* DeliveryStrategy.getDeliveryAction *)

\* The outcome of a getDeliveryAction call: that of Outcome, with the path
\* handed to followDeliveryPath (`followed`, when `follows`), whether
\* findPath replaced deliveryPath (`recomputed`) and the parcel that
\* evaluateDetourParcels selected (`detour`).
Call(o, follows, followed, recomputed, detour) ==
    [deliveryPath |-> o.deliveryPath, blockedTargetTile |-> o.blockedTargetTile,
     blockedCounter |-> o.blockedCounter, ret |-> o.ret, branch |-> o.branch,
     follows |-> follows, followed |-> followed, recomputed |-> recomputed,
     detour |-> detour]

\* An early return that writes no field.
EarlyReturn(ret, branch, detour) ==
    Call(Outcome(deliveryPath, blockedTargetTile, blockedCounter, ret, branch),
         FALSE, <<>>, FALSE, detour)

\* AtDeliveryTile without the clearing of the path.
AtDeliveryTile_KeepsPath ==
    Call(Outcome(deliveryPath, blockedTargetTile, blockedCounter, Putdown, "putdown"),
         FALSE, <<>>, FALSE, Null)

\* Standing on a delivery tile: clear the path, put down.
AtDeliveryTile ==
    Call(Outcome(<<>>, blockedTargetTile, blockedCounter, Putdown, "putdown"),
         FALSE, <<>>, FALSE, Null)

\* The closest delivery tile is unknown: clear the path, no action.
NoDeliveryTile ==
    Call(Outcome(<<>>, blockedTargetTile, blockedCounter, Null, "noDeliveryTile"),
         FALSE, <<>>, FALSE, Null)

\* NeedsNewPath that asks for a route on every turn.
NeedsNewPath_EveryTurn(targetX, targetY) ==
    Len(deliveryPath) >= 0 \/ ~ isPathLeadingTo(deliveryPath, targetX, targetY)

\* Whether deliveryPath must be computed anew to lead to (targetX, targetY).
NeedsNewPath(targetX, targetY) ==
    Len(deliveryPath) = 0 \/ ~ isPathLeadingTo(deliveryPath, targetX, targetY)

\* Follow `path`, which is deliveryPath or the route that replaces it.
FollowPath(path, recomputed, detour) ==
    Call(followDeliveryPath(path, blockedTargetTile, blockedCounter,
                            myPosition.x, myPosition.y),
         TRUE, path, recomputed, detour)

\* Make deliveryPath lead to (targetX, targetY), then follow it.
HeadFor(targetX, targetY, detour) ==
    IF NeedsNewPath(targetX, targetY)
    THEN FollowPath(findPath(myPosition.x, myPosition.y, targetX, targetY), TRUE, detour)
    ELSE FollowPath(deliveryPath, FALSE, detour)

\* TowardDetour without the test for standing on the parcel.
TowardDetour_NeverPicksUp(detourParcel) ==
    HeadFor(detourParcel.x, detourParcel.y, detourParcel)

\* A detour parcel was selected: pick it up when standing on it, else head
\* for it.
TowardDetour(detourParcel) ==
    IF isAtPosition(detourParcel.x, detourParcel.y, myPosition.x, myPosition.y)
    THEN EarlyReturn(Pickup(detourParcel.id), "pickup", detourParcel)
    ELSE HeadFor(detourParcel.x, detourParcel.y, detourParcel)

\* No detour: head for the closest delivery tile, if there is one.
TowardDelivery(closestDeliveryTile) ==
    IF closestDeliveryTile = Null THEN NoDeliveryTile
    ELSE HeadFor(closestDeliveryTile.x, closestDeliveryTile.y, Null)

\* The part of getDeliveryAction() after evaluateDetourParcels().
AfterDetourEvaluation(detourParcel) ==
    IF detourParcel # Null THEN TowardDetour(detourParcel)
    ELSE TowardDelivery(getClosestDeliveryTile(myPosition.x, myPosition.y))

\* getDeliveryAction(), as a function of the state it is called in.
getDeliveryActionCall ==
    IF ~ shouldDeliver THEN EarlyReturn(Null, "notDelivering", Null)
    ELSE IF myPosition = Null THEN EarlyReturn(Null, "noPosition", Null)
    ELSE IF isDeliveryTile(myPosition.x, myPosition.y) THEN AtDeliveryTile
    ELSE AfterDetourEvaluation(evaluateDetourParcels)

\* The fields as they were when the last call began.
Before ==
    [deliveryPath |-> deliveryPath, blockedTargetTile |-> blockedTargetTile,
     blockedCounter |-> blockedCounter, carrying |-> shouldDeliver]

\* Nothing called since the beliefs last changed.
NoCall ==
    [op |-> "none", ret |-> Null, branch |-> "none", follows |-> FALSE,
     followed |-> <<>>, recomputed |-> FALSE, detour |-> Null, before |-> Null]

\* The fields written and the call observed, for the outcome c.
Returns(c) ==
    /\ deliveryPath' = c.deliveryPath
    /\ blockedTargetTile' = c.blockedTargetTile
    /\ blockedCounter' = c.blockedCounter
    /\ last' = [op |-> "getDeliveryAction", ret |-> c.ret, branch |-> c.branch,
                follows |-> c.follows, followed |-> c.followed,
                recomputed |-> c.recomputed, detour |-> c.detour,
                before |-> Before]

\* The action: one call of getDeliveryAction().
getDeliveryAction ==
    /\ Returns(getDeliveryActionCall)
    /\ UNCHANGED <<beliefVars, configVars, carriedParcels>>

----------------------------------------------------------------------------
(* DeliveryStrategy.updateCarriedParcels *)

IsCarriedByMe(p) == p.carriedBy = myId

\* Whether the path and the block state are cleared, given the new
\* carriedParcels.
ClearsOnUpdate(carried) == Len(carried) = 0 /\ Len(deliveryPath) > 0

\* The fields written when carriedParcels becomes `carried`.
SetCarried(carried) ==
    /\ carriedParcels' = carried
    /\ IF ClearsOnUpdate(carried)
       THEN /\ deliveryPath' = <<>>
            /\ blockedTargetTile' = Null
            /\ blockedCounter' = 0
       ELSE UNCHANGED <<deliveryPath, blockedTargetTile, blockedCounter>>

\* updateCarriedParcels that keeps carriedParcels when the own id is unknown.
updateCarriedParcels_KeepsWhenIdUnknown(allParcels) ==
    /\ IF myId # NullId
       THEN SetCarried(SelectSeq(allParcels, IsCarriedByMe))
       ELSE UNCHANGED <<carriedParcels, deliveryPath, blockedTargetTile, blockedCounter>>
    /\ last' = [NoCall EXCEPT !.op = "updateCarriedParcels", !.before = Before]
    /\ UNCHANGED <<beliefVars, configVars>>

\* The action: one call of updateCarriedParcels(allParcels).
updateCarriedParcels(allParcels) ==
    /\ IF myId # NullId
       THEN SetCarried(SelectSeq(allParcels, IsCarriedByMe))
       ELSE /\ carriedParcels' = <<>>
            /\ UNCHANGED <<deliveryPath, blockedTargetTile, blockedCounter>>
    /\ last' = [NoCall EXCEPT !.op = "updateCarriedParcels", !.before = Before]
    /\ UNCHANGED <<beliefVars, configVars>>

----------------------------------------------------------------------------
(* The world the beliefs report *)

Parcel(id, x, y, reward, carriedBy) ==
    [id |-> id, x |-> x, y |-> y, reward |-> reward, carriedBy |-> carriedBy]

Agent(id, x, y) == [id |-> id, x |-> x, y |-> y]

\* Configurations explored.  The threshold is fixed; rewards lie on both
\* sides of it.
Thresholds == {10}
Timeouts == 1..MaxTimeout
DetourLimits == 1..MaxDetour

\* Where the agent believes it is: a tile of the block, or unknown.
Positions == Block \cup {Null}

\* The other agent, when in sight: on tile (1,0), half way between (1,0)
\* and (2,0), or on tile (0,1).  Coordinates are in half tiles.
AgentPlacements ==
    {{}, {Agent(Other, 2, 0)}, {Agent(Other, 3, 0)}, {Agent(Other, 0, 2)}}

\* The delivery tiles the beliefs may hold.
DeliverySets == {{}, {Tile(2, 1)}, {Tile(2, 0), Tile(2, 1)}}

\* The parcels of the main specification: parcel 1, of a reward below the
\* threshold, carried by the agent or lying on (0,0); parcel 2, of a high
\* reward, lying on (1,0) or (1,1), free or carried by the other agent.
ParcelWorlds ==
    {<<Parcel(1, 0, 0, 5, c1), Parcel(2, t[1], t[2], 60, c2)>> :
        c1 \in {Me, NullId}, t \in {<<1, 0>>, <<1, 1>>}, c2 \in {NullId, Other}}

NoTrip == [route |-> <<>>, calls |-> 0, moves |-> 0, waits |-> 0]

\* The state after the constructor, in any world.
Init ==
    /\ myId \in {NullId, Me}
    /\ myPosition \in Positions
    /\ agents \in AgentPlacements
    /\ availableParcels \in ParcelWorlds
    /\ deliveryTiles \in DeliverySets
    /\ carriedParcels = <<>>
    /\ deliveryPath = <<>>
    /\ blockedTargetTile = Null
    /\ blockedCounter = 0
    /\ deliveryThreshold \in Thresholds
    /\ maxDetourDistance = MaxDetour
    /\ BLOCKED_TIMEOUT \in Timeouts
    /\ last = NoCall
    /\ trip = NoTrip

\* Between two calls the beliefs change: one of them at a time.
IdChanges ==
    /\ myId' \in {NullId, Me} \ {myId}
    /\ last' = NoCall
    /\ UNCHANGED <<myPosition, agents, availableParcels, deliveryTiles,
                   configVars, fieldVars, trip>>

\* The agent is seen one tile further, is lost from sight, or is seen again.
PositionChanges ==
    /\ myPosition' \in IF myPosition = Null THEN Block
                       ELSE (Neighbours(myPosition) \cap Block) \cup {Null}
    /\ last' = NoCall
    /\ UNCHANGED <<myId, agents, availableParcels, deliveryTiles,
                   configVars, fieldVars, trip>>

AgentsChange ==
    /\ agents' \in AgentPlacements \ {agents}
    /\ last' = NoCall
    /\ UNCHANGED <<myId, myPosition, availableParcels, deliveryTiles,
                   configVars, fieldVars, trip>>

ParcelsChange ==
    /\ availableParcels' \in ParcelWorlds \ {availableParcels}
    /\ last' = NoCall
    /\ UNCHANGED <<myId, myPosition, agents, deliveryTiles,
                   configVars, fieldVars, trip>>

DeliveryTilesChange ==
    /\ deliveryTiles' \in DeliverySets \ {deliveryTiles}
    /\ last' = NoCall
    /\ UNCHANGED <<myId, myPosition, agents, availableParcels,
                   configVars, fieldVars, trip>>

\* The runtime's two calls, on the parcels the beliefs hold.
UpdateCarriedParcels == updateCarriedParcels(availableParcels) /\ UNCHANGED trip

GetDeliveryAction == getDeliveryAction /\ UNCHANGED trip

Next ==
    \/ IdChanges
    \/ PositionChanges
    \/ AgentsChange
    \/ ParcelsChange
    \/ DeliveryTilesChange
    \/ UpdateCarriedParcels
    \/ GetDeliveryAction

Spec == Init /\ [][Next]_vars

----------------------------------------------------------------------------
(* SpecDetour: evaluateDetourParcels as a function of the beliefs *)

DetourSpots == {Tile(1, 0), Tile(1, 1), Island}
Rewards == {5, 20, 60}
DetourPositions == {Tile(0, 0), Tile(0, 1), Tile(1, 0), Island}
DetourDeliverySets == {{}, {Tile(2, 0)}, {Tile(2, 1)}, {Island}}

\* Every parcel list of n parcels; the id of a parcel is its place.
ParcelLists(n) ==
    {[i \in 1..n |-> Parcel(i, f[i][1].x, f[i][1].y, f[i][2], f[i][3])] :
        f \in [1..n -> DetourSpots \X Rewards \X {NullId, Other}]}

InitDetour ==
    /\ myId = Me
    /\ myPosition \in DetourPositions
    /\ agents = {}
    /\ availableParcels \in UNION {ParcelLists(n) : n \in 0..MaxParcels}
    /\ deliveryTiles \in DetourDeliverySets
    /\ carriedParcels = <<>>
    /\ deliveryPath = <<>>
    /\ blockedTargetTile = Null
    /\ blockedCounter = 0
    /\ deliveryThreshold \in Thresholds
    /\ maxDetourDistance \in DetourLimits
    /\ BLOCKED_TIMEOUT = MaxTimeout
    /\ last = NoCall
    /\ trip = NoTrip

\* One call of evaluateDetourParcels(); it writes no field.
EvaluateDetour ==
    /\ last.op = "none"
    /\ last' = [NoCall EXCEPT !.op = "evaluateDetourParcels",
                              !.detour = evaluateDetourParcels]
    /\ UNCHANGED <<beliefVars, configVars, fieldVars, trip>>

SpecDetour == InitDetour /\ [][EvaluateDetour]_vars

----------------------------------------------------------------------------
(* Scenarios: a delivery trip with a parcel in hand *)

\* The route to the closest delivery tile from where the agent stands.
RouteToDelivery(pos, tiles) ==
    LET d == CHOOSE d \in tiles :
                \A e \in tiles :
                    \/ Manhattan(pos.x, pos.y, d.x, d.y) < Manhattan(pos.x, pos.y, e.x, e.y)
                    \/ /\ Manhattan(pos.x, pos.y, d.x, d.y) = Manhattan(pos.x, pos.y, e.x, e.y)
                       /\ TileRank(d) <= TileRank(e)
    IN  findPath(pos.x, pos.y, d.x, d.y)

\* Parcel 1 in hand and recorded by updateCarriedParcels, no free parcel,
\* a known position, delivery tiles in reach.
InitTrip ==
    /\ myId = Me
    /\ myPosition \in Block
    /\ availableParcels \in {w \in ParcelWorlds : w[1].carriedBy = Me /\ w[2].carriedBy = Other}
    /\ deliveryTiles \in DeliverySets \ {{}}
    /\ carriedParcels = SelectSeq(availableParcels, IsCarriedByMe)
    /\ deliveryPath = <<>>
    /\ blockedTargetTile = Null
    /\ blockedCounter = 0
    /\ deliveryThreshold \in Thresholds
    /\ maxDetourDistance = MaxDetour
    /\ last = NoCall
    /\ trip = [NoTrip EXCEPT !.route = RouteToDelivery(myPosition, deliveryTiles)]

\* A turn of the trip: getDeliveryAction, and the log of what it returned.
Turn ==
    /\ getDeliveryAction
    /\ trip' = [trip EXCEPT !.calls = @ + 1,
                            !.moves = IF IsMove(last'.ret) THEN @ + 1 ELSE @,
                            !.waits = IF last'.ret = Null THEN @ + 1 ELSE @]

\* SpecStatic: nobody else on the map; every Move returned is carried out
\* before the next turn, and the trip ends with the Putdown.
InitStatic ==
    /\ InitTrip
    /\ agents = {}
    /\ BLOCKED_TIMEOUT \in Timeouts

StaticTurn ==
    /\ last.op # "getDeliveryAction"
    /\ Turn

ExecuteMove ==
    /\ last.op = "getDeliveryAction"
    /\ IsMove(last.ret)
    /\ myPosition' = StepTo(myPosition, last.ret.action)
    /\ last' = [NoCall EXCEPT !.op = "move"]
    /\ UNCHANGED <<myId, agents, availableParcels, deliveryTiles,
                   configVars, fieldVars, trip>>

NextStatic == StaticTurn \/ ExecuteMove

SpecStatic == InitStatic /\ [][NextStatic]_vars

\* SpecBlocked: BLOCKED_TIMEOUT is 3 and another agent stands, turn after
\* turn, on the first tile of the route (on it, or half a tile further).
InitBlocked ==
    /\ InitTrip
    /\ BLOCKED_TIMEOUT = 3
    /\ trip.route # <<>>
    /\ \E half \in {0, 1} :
          agents = {Agent(Other, 2 * trip.route[1].x + half, 2 * trip.route[1].y)}

BlockedTurn ==
    /\ trip.calls < MaxCalls
    /\ Turn

SpecBlocked == InitBlocked /\ [][BlockedTurn]_vars

----------------------------------------------------------------------------
(* Properties.  Beliefs do not change during a call, so in a state reached  *)
(* by a call (last.op names it) the beliefs are those the call has read.    *)

AfterGetDeliveryAction == last.op = "getDeliveryAction"
AfterUpdateCarriedParcels == last.op = "updateCarriedParcels"

\* The call began with a parcel in hand, a known position and no delivery
\* tile under the agent.
OnTheWay ==
    /\ AfterGetDeliveryAction
    /\ last.before.carrying
    /\ myPosition # Null
    /\ ~ isDeliveryTile(myPosition.x, myPosition.y)

\* The call has followed a path whose first tile another agent occupies.
FoundBlocked ==
    /\ AfterGetDeliveryAction
    /\ last.follows
    /\ last.followed # <<>>
    /\ isBlockedByOtherAgent(last.followed[1].x, last.followed[1].y)

\* C1: a getDeliveryAction call made with a parcel in hand and the known
\* position on a delivery tile returns Putdown and leaves deliveryPath
\* empty, whatever the path, the block state, the other agents and the
\* parcels were.
C1_PutdownOnDeliveryTile ==
    (/\ AfterGetDeliveryAction
     /\ last.before.carrying
     /\ myPosition # Null
     /\ isDeliveryTile(myPosition.x, myPosition.y))
    => (last.ret = Putdown /\ deliveryPath = <<>>)

\* C1, its case: Putdown with a route pending, a block being counted,
\* another agent in sight and a parcel that the detour evaluation selects.
C1_Witness ==
    /\ AfterGetDeliveryAction
    /\ last.ret = Putdown
    /\ last.before.deliveryPath # <<>>
    /\ last.before.blockedCounter > 0
    /\ agents # {}
    /\ evaluateDetourParcels # Null

\* C2, as claimed: for every BLOCKED_TIMEOUT >= 1 no call of
\* getDeliveryAction returns with blockedCounter >= BLOCKED_TIMEOUT (the
\* path and the block state are cleared in the call in which the counter
\* reaches the timeout).
C2_NeverLeftAtTimeout ==
    AfterGetDeliveryAction => blockedCounter < BLOCKED_TIMEOUT

\* C4: when the first tile of the followed path is occupied and is not the
\* recorded blockedTargetTile (or none is recorded), the call leaves
\* blockedTargetTile on that tile and blockedCounter at exactly 1.
C4_NewTileCountsFromOne ==
    (/\ FoundBlocked
     /\ last.before.blockedTargetTile # last.followed[1])
    => (blockedTargetTile = last.followed[1] /\ blockedCounter = 1)

\* C4, its case: the block moves to another tile after two turns counted
\* on the first one.
C4_Witness ==
    /\ FoundBlocked
    /\ last.before.blockedTargetTile # Null
    /\ last.before.blockedTargetTile # last.followed[1]
    /\ last.before.blockedCounter >= 2
    /\ blockedCounter = 1

\* C5, as claimed: an updateCarriedParcels call that finds carriedParcels
\* non-empty and leaves it empty (the own id unknown included) leaves
\* deliveryPath empty and the block state (null, 0).
C5_ClearedWhenNothingCarried ==
    (/\ AfterUpdateCarriedParcels
     /\ last.before.carrying
     /\ carriedParcels = <<>>)
    => (deliveryPath = <<>> /\ blockedTargetTile = Null /\ blockedCounter = 0)

\* C10, as claimed: after every call of updateCarriedParcels or
\* getDeliveryAction, an empty deliveryPath comes with the block state
\* (null, 0).
C10_EmptyPathMeansNoBlock ==
    ((AfterGetDeliveryAction \/ AfterUpdateCarriedParcels) /\ deliveryPath = <<>>)
    => (blockedTargetTile = Null /\ blockedCounter = 0)

\* C3, under SpecBlocked (BLOCKED_TIMEOUT = 3, the first tile of the route
\* occupied on every turn, no detour candidate, block state (null, 0) at
\* the start): call 1 returns no action with blockedCounter 1, call 2 no
\* action with blockedCounter 2 and the route intact, call 3 no action with
\* deliveryPath empty and the block state (null, 0), and call 4 asks the
\* pathfinder for a route again.
C3_BlockedForThreeTurns ==
    AfterGetDeliveryAction =>
        /\ trip.calls = 1 =>
              /\ last.ret = Null
              /\ blockedCounter = 1
              /\ blockedTargetTile = trip.route[1]
        /\ trip.calls = 2 =>
              /\ last.ret = Null
              /\ blockedCounter = 2
              /\ deliveryPath = trip.route
        /\ trip.calls = 3 =>
              /\ last.ret = Null
              /\ deliveryPath = <<>>
              /\ blockedTargetTile = Null
              /\ blockedCounter = 0
        /\ trip.calls = 4 =>
              /\ last.recomputed
              /\ last.followed = trip.route

\* C3, its case: the fourth call, made on the path that the third cleared.
C3_Witness ==
    /\ AfterGetDeliveryAction
    /\ trip.calls = 4
    /\ last.before.deliveryPath = <<>>
    /\ last.recomputed
    /\ FoundBlocked

----------------------------------------------------------------------------
(* evaluateDetourParcels, stated on the distances of the map *)

TileOf(p) == Tile(p.x, p.y)
Reaches(from, to) == from \in DOMAIN DistTo[to]
Steps(from, to) == DistTo[to][from]

\* The steps that the detour by parcel p adds to the way to `delivery`.
Added(p, delivery) ==
    Steps(myPosition, TileOf(p)) + Steps(TileOf(p), delivery)
        - Steps(myPosition, delivery)

\* Parcel p may be chosen for a detour; `filtered` adds the heuristic
\* distance from the agent.
Eligible(p, delivery, filtered) ==
    /\ p.carriedBy = NullId
    /\ p.reward > deliveryThreshold
    /\ filtered => Manhattan(myPosition.x, myPosition.y, p.x, p.y) <= maxDetourDistance
    /\ Reaches(myPosition, TileOf(p))
    /\ Reaches(TileOf(p), delivery)
    /\ Added(p, delivery) <= maxDetourDistance

\* reward / (addedSteps + 1) of p is at least (more than) that of q.
ScoreAtLeast(p, q, delivery) ==
    p.reward * (Added(q, delivery) + 1) >= q.reward * (Added(p, delivery) + 1)
ScoreAbove(p, q, delivery) ==
    p.reward * (Added(q, delivery) + 1) > q.reward * (Added(p, delivery) + 1)

\* The parcel in place i is eligible, no eligible parcel scores more, and
\* every eligible parcel before it scores less.
IsFirstBest(i, delivery, filtered) ==
    /\ Eligible(availableParcels[i], delivery, filtered)
    /\ \A j \in 1..Len(availableParcels) :
          Eligible(availableParcels[j], delivery, filtered) =>
              /\ ScoreAtLeast(availableParcels[i], availableParcels[j], delivery)
              /\ j < i => ScoreAbove(availableParcels[i], availableParcels[j], delivery)

\* What C6 says of the parcel returned, for the closest delivery tile.
DetourIsSound(returned, delivery) ==
    /\ (delivery = Null \/ ~ Reaches(myPosition, delivery)) => returned = Null
    /\ returned # Null =>
          /\ \E i \in 1..Len(availableParcels) : availableParcels[i] = returned
          /\ Eligible(returned, delivery, TRUE)

\* What C7 says of the parcel returned, for a delivery tile in reach.
DetourIsBest(returned, delivery, filtered) ==
    IF \E i \in 1..Len(availableParcels) :
          Eligible(availableParcels[i], delivery, filtered)
    THEN \E i \in 1..Len(availableParcels) :
            /\ IsFirstBest(i, delivery, filtered)
            /\ returned = availableParcels[i]
    ELSE returned = Null

AfterEvaluateDetour == last.op = "evaluateDetourParcels"

DeliveryInReach(delivery) == delivery # Null /\ Reaches(myPosition, delivery)

\* C6: a parcel returned by evaluateDetourParcels is one of the list, is
\* carried by no one, has a reward above deliveryThreshold, lies within
\* maxDetourDistance of the agent by the heuristic, has both legs reachable
\* and adds at most maxDetourDistance steps; nothing is returned when no
\* delivery tile exists or the closest one is out of reach.
C6_DetourOnlyIfEligible ==
    AfterEvaluateDetour =>
        DetourIsSound(last.detour, getClosestDeliveryTile(myPosition.x, myPosition.y))

\* C6, its case: a parcel is returned although the list holds one of a
\* higher reward, which is not eligible.
C6_Witness ==
    /\ AfterEvaluateDetour
    /\ last.detour # Null
    /\ \E j \in 1..Len(availableParcels) :
          availableParcels[j].reward > last.detour.reward

\* C7, as claimed: with a delivery tile in reach, the parcel returned is the
\* first of maximal score among the uncarried parcels of a reward above the
\* threshold with both legs reachable and addedSteps <= maxDetourDistance,
\* and nothing is returned only when there is none.
C7_BestOfAllWithinAddedSteps ==
    (/\ AfterEvaluateDetour
     /\ DeliveryInReach(getClosestDeliveryTile(myPosition.x, myPosition.y)))
    => DetourIsBest(last.detour, getClosestDeliveryTile(myPosition.x, myPosition.y), FALSE)

\* C7, amended: the same, among the parcels that moreover lie within
\* maxDetourDistance of the agent by the heuristic distance.
C7_BestOfThoseNearby ==
    (/\ AfterEvaluateDetour
     /\ DeliveryInReach(getClosestDeliveryTile(myPosition.x, myPosition.y)))
    => DetourIsBest(last.detour, getClosestDeliveryTile(myPosition.x, myPosition.y), TRUE)

\* C7, its case: two eligible parcels on different tiles with the same,
\* maximal score; the first of the list is returned.
C7_Witness ==
    /\ AfterEvaluateDetour
    /\ DeliveryInReach(getClosestDeliveryTile(myPosition.x, myPosition.y))
    /\ Len(availableParcels) = 2
    /\ TileOf(availableParcels[1]) # TileOf(availableParcels[2])
    /\ IsFirstBest(1, getClosestDeliveryTile(myPosition.x, myPosition.y), TRUE)
    /\ Eligible(availableParcels[2], getClosestDeliveryTile(myPosition.x, myPosition.y), TRUE)
    /\ ScoreAtLeast(availableParcels[2], availableParcels[1],
                    getClosestDeliveryTile(myPosition.x, myPosition.y))
    /\ last.detour = availableParcels[1]

----------------------------------------------------------------------------
(* The trip and the detour on the way *)

\* C8, under SpecStatic (a parcel in hand, a delivery tile at n steps, no
\* other agent, no free parcel, every Move carried out before the next
\* turn): no call returns no action, the k-th Move goes into the k-th tile
\* of the route, and Putdown comes after exactly n Moves.
C8_MovesThenPutdown ==
    AfterGetDeliveryAction =>
        /\ last.ret # Null
        /\ trip.waits = 0
        /\ IsMove(last.ret) =>
              /\ trip.moves <= Len(trip.route)
              /\ StepTo(myPosition, last.ret.action) = trip.route[trip.moves]
        /\ last.ret = Putdown =>
              /\ trip.moves = Len(trip.route)
              /\ trip.calls = trip.moves + 1

\* C8, its case: the Putdown at the end of a route of three steps.
C8_Witness ==
    /\ AfterGetDeliveryAction
    /\ last.ret = Putdown
    /\ Len(trip.route) = 3
    /\ trip.moves = 3

\* The call was made on the way with the detour parcel p selected, away
\* from p, and has followed a path whose first tile is free.
FollowedFreeTowardDetour(p) ==
    /\ ~ isAtPosition(p.x, p.y, myPosition.x, myPosition.y)
    /\ last.follows
    /\ last.followed # <<>>
    /\ ~ isBlockedByOtherAgent(last.followed[1].x, last.followed[1].y)

\* What C9 claims for the detour parcel p.
DetourAsClaimed(p) ==
    /\ isAtPosition(p.x, p.y, myPosition.x, myPosition.y) => last.ret = Pickup(p.id)
    /\ FollowedFreeTowardDetour(p) =>
          /\ IsMove(last.ret)
          /\ StepTo(myPosition, last.ret.action) = last.followed[1]
          /\ isPathLeadingTo(last.followed, p.x, p.y)
          /\ isPathLeadingTo(deliveryPath, p.x, p.y)

\* What holds for the detour parcel p: the Move is returned when the first
\* tile of the followed path is next to the agent, and the path left is the
\* followed one without that tile.
DetourAsAmended(p) ==
    /\ isAtPosition(p.x, p.y, myPosition.x, myPosition.y) => last.ret = Pickup(p.id)
    /\ (/\ FollowedFreeTowardDetour(p)
        /\ last.followed[1] \in Neighbours(myPosition)) =>
          /\ IsMove(last.ret)
          /\ StepTo(myPosition, last.ret.action) = last.followed[1]
          /\ isPathLeadingTo(last.followed, p.x, p.y)
          /\ deliveryPath = Tail(last.followed)
          /\ Len(last.followed) > 1 => isPathLeadingTo(deliveryPath, p.x, p.y)

\* C9, as claimed: on the way, with a detour parcel selected on another
\* tile and the first tile of the route to it free, the call returns a Move
\* into that tile and leaves a deliveryPath that ends on the parcel's tile;
\* standing on the parcel it returns Pickup with the parcel's id.
C9_MoveTowardDetourPathEndsAtParcel ==
    (OnTheWay /\ evaluateDetourParcels # Null) => DetourAsClaimed(evaluateDetourParcels)

\* C9, amended: the Move is returned when that first tile is adjacent to
\* the agent, and deliveryPath is left as the rest of the route: empty when
\* the parcel was one step away, ending on the parcel's tile otherwise.
C9_MoveTowardDetourRestOfRoute ==
    (OnTheWay /\ evaluateDetourParcels # Null) => DetourAsAmended(evaluateDetourParcels)

\* C9, its case: a Move into the first tile of a route of two steps to the
\* parcel, which is not the first tile of the route to the delivery tile.
C9_Witness ==
    /\ OnTheWay
    /\ evaluateDetourParcels # Null
    /\ IsMove(last.ret)
    /\ Len(last.followed) = 2
    /\ isPathLeadingTo(deliveryPath, evaluateDetourParcels.x, evaluateDetourParcels.y)
    /\ last.followed[1] # RouteToDelivery(myPosition, deliveryTiles)[1]

\* C11, as claimed: a getDeliveryAction call that leaves blockedCounter = k > 0
\* for tile T is itself one of the k counted turns: it followed a path whose
\* first tile is T and found T occupied by another agent.  A call that
\* returns early therefore leaves no count behind it.
C11_CountedTurnsAreBlockedTurns ==
    (AfterGetDeliveryAction /\ blockedCounter > 0)
    => (/\ FoundBlocked
        /\ last.followed[1] = blockedTargetTile)

----------------------------------------------------------------------------
(* followDeliveryPath, step by step *)

\* The call has followed a path whose first tile is free of other agents.
FoundFree ==
    /\ AfterGetDeliveryAction
    /\ last.follows
    /\ last.followed # <<>>
    /\ ~ isBlockedByOtherAgent(last.followed[1].x, last.followed[1].y)

\* The call has followed a path whose first tile is free, and the
\* pathfinder has no primitive move from the agent's tile into it.
StepUnresolved ==
    /\ FoundFree
    /\ getActionToNextStep(myPosition.x, myPosition.y,
                           last.followed[1].x, last.followed[1].y) = NullMove

\* C12: a call that follows a non-empty path whose first tile is free, and
\* for whose first step the pathfinder returns no primitive move, returns
\* no action and leaves deliveryPath empty and the block state (null, 0);
\* a getDeliveryAction call made next, if it follows a path at all, follows
\* one that findPath has just computed.
C12_UnresolvedStepClearsAll ==
    [][/\ StepUnresolved' =>
             /\ last'.ret = Null
             /\ deliveryPath' = <<>>
             /\ blockedTargetTile' = Null
             /\ blockedCounter' = 0
       /\ (StepUnresolved /\ last'.op = "getDeliveryAction" /\ last'.follows) =>
             last'.recomputed]_vars

\* C12, its case: the step into a free tile two tiles away is unresolved,
\* with a block counted before the call.
C12_Witness ==
    /\ StepUnresolved
    /\ last.branch = "unresolved"
    /\ ~ last.recomputed
    /\ last.before.blockedCounter > 0

----------------------------------------------------------------------------
(* The lazy recomputation of the route *)

\* The target that a call made on the way chooses: the tile of the detour
\* parcel, else the closest delivery tile (Null when there is none).
ChosenTarget ==
    IF evaluateDetourParcels # Null
    THEN Tile(evaluateDetourParcels.x, evaluateDetourParcels.y)
    ELSE getClosestDeliveryTile(myPosition.x, myPosition.y)

\* The path the call began with was non-empty and ended on the target t.
LedTo(t) ==
    /\ last.before.deliveryPath # <<>>
    /\ isPathLeadingTo(last.before.deliveryPath, t.x, t.y)

\* What a call may leave of the path p without substituting another one:
\* p, p without its first step, or nothing.
RestsOf(p) == {p, <<>>} \cup (IF p # <<>> THEN {Tail(p)} ELSE {})

\* C13: a getDeliveryAction call replaces deliveryPath by a route computed
\* by findPath only on the way to a chosen target and only if the path was
\* empty or did not end on that target; in every other call, in particular
\* when the path is non-empty and ends on the chosen target, deliveryPath is
\* left as it was, without its first step, or empty.
C13_RouteReplacedOnlyWhenStale ==
    AfterGetDeliveryAction =>
        /\ last.recomputed =>
              /\ OnTheWay
              /\ ChosenTarget # Null
              /\ ~ LedTo(ChosenTarget)
              /\ last.followed = findPath(myPosition.x, myPosition.y,
                                          ChosenTarget.x, ChosenTarget.y)
        /\ ~ last.recomputed => deliveryPath \in RestsOf(last.before.deliveryPath)

\* C13, its case: a path of two steps or more that ends on the chosen
\* target is kept and loses its first step.
C13_Witness ==
    /\ OnTheWay
    /\ ChosenTarget # Null
    /\ LedTo(ChosenTarget)
    /\ Len(last.before.deliveryPath) >= 2
    /\ ~ last.recomputed
    /\ deliveryPath = Tail(last.before.deliveryPath)

----------------------------------------------------------------------------
(* carriedParcels and the own id *)

\* The parcels of allParcels that the agent carries, none when its id is
\* unknown.
CarriedByOwnId(allParcels) ==
    IF myId = NullId THEN <<>> ELSE SelectSeq(allParcels, IsCarriedByMe)

\* The call returned no action and left the path and the block state as
\* they were, finding nothing carried.
IdleCall ==
    /\ ~ last.before.carrying
    /\ last.ret = Null
    /\ deliveryPath = last.before.deliveryPath
    /\ blockedTargetTile = last.before.blockedTargetTile
    /\ blockedCounter = last.before.blockedCounter

\* C14, as claimed: after updateCarriedParcels(allParcels), carriedParcels
\* is the sub-sequence of allParcels carried by the own id, empty when the
\* id is unknown; and whenever the own id is unknown a getDeliveryAction
\* call finds nothing to deliver, returns no action and changes neither
\* deliveryPath nor the block state.
C14_IdleWheneverIdUnknown ==
    /\ AfterUpdateCarriedParcels => carriedParcels = CarriedByOwnId(availableParcels)
    /\ (AfterGetDeliveryAction /\ myId = NullId) => IdleCall

\* C14, amended: the same after updateCarriedParcels; and a
\* getDeliveryAction call made with the own id unknown right after
\* updateCarriedParcels (the beliefs not having changed in between) finds
\* nothing to deliver, returns no action and changes neither deliveryPath
\* nor the block state.
C14_IdleRightAfterUpdate ==
    [][/\ AfterUpdateCarriedParcels' =>
             carriedParcels' = CarriedByOwnId(availableParcels')
       /\ (/\ AfterUpdateCarriedParcels
           /\ myId = NullId
           /\ last'.op = "getDeliveryAction") => IdleCall']_vars

\* C14, its case: with the own id unknown and nothing carried, a call
\* leaves a pending path and a counted block as they are.
C14_Witness ==
    /\ AfterGetDeliveryAction
    /\ myId = NullId
    /\ IdleCall
    /\ \E i \in DOMAIN availableParcels : availableParcels[i].carriedBy = Me
    /\ deliveryPath # <<>>
    /\ blockedCounter > 0

----------------------------------------------------------------------------
(* Moves and the other agents *)

\* Some agent of another id than the own one (unknown or not) is believed
\* to be on tile t, its coordinates truncated.
OccupiedByAnother(t) ==
    \E agent \in agents :
        /\ agent.id # myId
        /\ MathFloor(agent.x) = t.x
        /\ MathFloor(agent.y) = t.y

\* C15, as claimed: a Move returned by getDeliveryAction goes into the first
\* tile of the path followed in that call, and no agent whose id differs
\* from the own id is on that tile in the beliefs of the turn; a call that
\* follows a path whose first tile is so occupied returns no action.
C15_NeverMovesIntoOccupiedTile ==
    AfterGetDeliveryAction =>
        /\ IsMove(last.ret) =>
              /\ last.follows
              /\ last.followed # <<>>
              /\ StepTo(myPosition, last.ret.action) = last.followed[1]
              /\ ~ OccupiedByAnother(last.followed[1])
        /\ (/\ last.follows
            /\ last.followed # <<>>
            /\ OccupiedByAnother(last.followed[1])) => last.ret = Null

\* C15, amended: the same while the own id is known.  (With the own id
\* unknown isBlockedByOtherAgent answers false for every tile.)
C15_NeverMovesIntoOccupiedTileIdKnown ==
    myId # NullId => C15_NeverMovesIntoOccupiedTile

\* C15, its case: a Move into (2,0) with the other agent at x = 1.5, on tile
\* (1,0) after truncation.
C15_Witness ==
    /\ AfterGetDeliveryAction
    /\ myId = Me
    /\ IsMove(last.ret)
    /\ last.followed[1] = Tile(2, 0)
    /\ Agent(Other, 3, 0) \in agents

----------------------------------------------------------------------------
(* The route is consumed one step per Move *)

\* The followed path's first tile is the one recorded as blocked, and this
\* turn brings the counter to BLOCKED_TIMEOUT.
TimeoutReached ==
    /\ last.before.blockedTargetTile = last.followed[1]
    /\ last.before.blockedCounter + 1 >= BLOCKED_TIMEOUT

\* C16: when a call returns a Move, it has followed a path and deliveryPath
\* is that path without its first step; when the first tile of the followed
\* path is occupied and the timeout is not reached, the call returns no
\* action and deliveryPath is the followed path, whole.
C16_OneStepPerMove ==
    AfterGetDeliveryAction =>
        /\ IsMove(last.ret) =>
              /\ last.follows
              /\ last.followed # <<>>
              /\ deliveryPath = Tail(last.followed)
        /\ (FoundBlocked /\ ~ TimeoutReached) =>
              /\ last.ret = Null
              /\ deliveryPath = last.followed

\* C16, its case: a second turn of waiting in front of the same tile, on a
\* kept path of two steps or more.
C16_Witness ==
    /\ FoundBlocked
    /\ ~ TimeoutReached
    /\ ~ last.recomputed
    /\ last.before.blockedCounter = 1
    /\ blockedCounter = 2
    /\ Len(deliveryPath) >= 2

----------------------------------------------------------------------------
(* SpecCells: the test for standing on the detour parcel, on coordinates    *)
(* that need not be whole                                                   *)

\* The coordinate n + 0.5 (an agent seen half way through a move, a parcel
\* carried along) is written Half + n: a number that equals no whole
\* coordinate and lies on no tile of the map.
Half == 100
Between(n) == Half + n

\* Math.trunc of a coordinate, whole or half way.
Truncate(c) == IF c >= Half THEN c - Half ELSE c

\* Coordinates of the agent and of the parcel in SpecCells.
CellXs == {0, 1, Between(0), Between(1)}
CellYs == {0, 1, Between(0)}

\* Parcel 1 in hand, and parcel 2, free and of a high reward, which
\* evaluateDetourParcels has selected; the agent and parcel 2 anywhere on
\* CellXs x CellYs; a path to (1,0) pending or none.
InitCells ==
    /\ myId = Me
    /\ myPosition \in {Tile(x, y) : x \in CellXs, y \in CellYs}
    /\ agents = {}
    /\ availableParcels \in
          {<<Parcel(1, 0, 0, 5, Me), Parcel(2, x, y, 60, NullId)>> :
              x \in CellXs, y \in CellYs}
    /\ deliveryTiles = {Tile(2, 1)}
    /\ carriedParcels = SelectSeq(availableParcels, IsCarriedByMe)
    /\ deliveryPath \in {<<>>, <<Tile(1, 0)>>}
    /\ blockedTargetTile = Null
    /\ blockedCounter = 0
    /\ deliveryThreshold \in Thresholds
    /\ maxDetourDistance = MaxDetour
    /\ BLOCKED_TIMEOUT = MaxTimeout
    /\ last = NoCall
    /\ trip = NoTrip

\* getDeliveryAction() from the test of the detour parcel on, for the
\* parcel selected.
DetourTurn ==
    /\ last.op = "none"
    /\ Returns(TowardDetour(availableParcels[2]))
    /\ UNCHANGED <<beliefVars, configVars, carriedParcels, trip>>

SpecCells == InitCells /\ [][DetourTurn]_vars

\* C17, as claimed: when the cell of the agent (its coordinates truncated)
\* is the cell of the selected detour parcel (its coordinates truncated),
\* whole coordinates or not, getDeliveryAction returns Pickup for that
\* parcel.
C17_PickupInTheParcelsCell ==
    (/\ AfterGetDeliveryAction
     /\ Truncate(myPosition.x) = Truncate(last.detour.x)
     /\ Truncate(myPosition.y) = Truncate(last.detour.y))
    => last.ret = Pickup(last.detour.id)

----------------------------------------------------------------------------
(* The block state *)

\* C18: in every state (after the constructor, after every call of
\* updateCarriedParcels or getDeliveryAction, whatever the beliefs become
\* in between) blockedTargetTile is null exactly when blockedCounter is 0,
\* and blockedCounter is not negative.
C18_TileRecordedIffCounting ==
    /\ (blockedTargetTile = Null) <=> (blockedCounter = 0)
    /\ blockedCounter >= 0

\* C18, its case: a tile recorded with two turns counted, left as it is by
\* a call of updateCarriedParcels.
C18_Witness ==
    /\ AfterUpdateCarriedParcels
    /\ blockedTargetTile # Null
    /\ blockedCounter = 2
    /\ last.before.blockedCounter = 2

----------------------------------------------------------------------------
(* SpecWorld: a static world in which the runtime carries out what the      *)
(* strategy returns                                                         *)

\* Free parcels of the static world: up to two, each on a tile of the block
\* or on the island, of a reward on either side of the threshold.
WorldSpots == {Tile(0, 1), Tile(1, 0), Tile(1, 1), Island}
WorldRewards == {5, 20, 60}

WorldParcelLists(n) ==
    {[i \in 1..(n + 1) |->
        IF i = 1 THEN Parcel(1, 0, 0, 5, Me)
        ELSE Parcel(i, f[i - 1][1].x, f[i - 1][1].y, f[i - 1][2], NullId)] :
        f \in [1..n -> WorldSpots \X WorldRewards]}

\* The delivery tiles of the static world: all in reach.
WorldDeliverySets == {{Tile(2, 1)}, {Tile(2, 0), Tile(2, 1)}, {Tile(0, 0), Tile(2, 1)}}

\* Parcel 1 in hand, nobody else on the map, nothing called yet.
InitWorld ==
    /\ myId = Me
    /\ myPosition \in Block
    /\ agents = {}
    /\ availableParcels \in WorldParcelLists(0) \cup WorldParcelLists(1) \cup WorldParcelLists(2)
    /\ deliveryTiles \in WorldDeliverySets
    /\ carriedParcels = <<>>
    /\ deliveryPath = <<>>
    /\ blockedTargetTile = Null
    /\ blockedCounter = 0
    /\ deliveryThreshold \in Thresholds
    /\ maxDetourDistance \in DetourLimits
    /\ BLOCKED_TIMEOUT = MaxTimeout
    /\ last = NoCall
    /\ trip = NoTrip

\* The runtime has carried out the action of the last turn, or the turn
\* returned no action: the next turn begins.
TurnBegins ==
    \/ last.op \in {"none", "move", "pickup"}
    \/ last.op = "getDeliveryAction" /\ last.ret = Null

\* A turn of the runtime: updateCarriedParcels on the parcels of the world,
\* then getDeliveryAction.
WorldUpdate ==
    /\ TurnBegins
    /\ updateCarriedParcels(availableParcels)
    /\ UNCHANGED trip

WorldTurn ==
    /\ last.op = "updateCarriedParcels"
    /\ GetDeliveryAction

\* The parcels once the parcel `id` is in the agent's hands.
PickedUp(parcels, id) ==
    [i \in DOMAIN parcels |->
        IF parcels[i].id = id THEN [parcels[i] EXCEPT !.carriedBy = myId]
        ELSE parcels[i]]

\* The Pickup returned is carried out: it succeeds.
ExecutePickup ==
    /\ last.op = "getDeliveryAction"
    /\ last.ret # Null
    /\ last.ret.action = "pickup"
    /\ availableParcels' = PickedUp(availableParcels, last.ret.target)
    /\ last' = [NoCall EXCEPT !.op = "pickup"]
    /\ UNCHANGED <<myId, myPosition, agents, deliveryTiles,
                   configVars, fieldVars, trip>>

\* The trip ends with the Putdown.
NextWorld ==
    \/ WorldUpdate
    \/ WorldTurn
    \/ ExecuteMove
    \/ ExecutePickup

\* Weak fairness of WorldTurn.  getDeliveryAction returns in every state and
\* changes `last`, so ENABLED <<WorldTurn>>_vars is the state predicate
\* last.op = "updateCarriedParcels", written here in its place.
TurnTaken ==
    []<>(last.op # "updateCarriedParcels") \/ []<><<WorldTurn>>_vars

\* The runtime makes each call of a turn, and carries out the action
\* returned, whenever it is due.
SpecWorld ==
    /\ InitWorld /\ [][NextWorld]_vars
    /\ WF_vars(WorldUpdate) /\ WF_vars(ExecuteMove) /\ WF_vars(ExecutePickup)
    /\ TurnTaken

----------------------------------------------------------------------------
(* SpecRun: every Move returned is carried out before anything else         *)
(* happens, and nothing else moves the agent                                *)

\* The last call returned a Move that the runtime has yet to carry out.
MovePending == last.op = "getDeliveryAction" /\ IsMove(last.ret)

\* The state after the constructor, the position known.
InitRun ==
    /\ Init
    /\ myPosition # Null

\* Between two turns the other agents, the parcels, the delivery tiles or
\* the own id change.
RunAgentsChange == ~ MovePending /\ AgentsChange
RunParcelsChange == ~ MovePending /\ ParcelsChange
RunDeliveryTilesChange == ~ MovePending /\ DeliveryTilesChange
RunIdChanges == ~ MovePending /\ IdChanges

RunUpdate == ~ MovePending /\ UpdateCarriedParcels
RunTurn == ~ MovePending /\ GetDeliveryAction

NextRun ==
    \/ RunAgentsChange
    \/ RunParcelsChange
    \/ RunDeliveryTilesChange
    \/ RunIdChanges
    \/ RunUpdate
    \/ RunTurn
    \/ ExecuteMove

SpecRun == InitRun /\ [][NextRun]_vars

\* C20, under SpecRun: whenever getDeliveryAction is called with a
\* non-empty deliveryPath, the first step of that path is a tile next to
\* the agent; and no call ends in the branch of the step that the
\* pathfinder cannot resolve.
C20_FirstStepIsAdjacent ==
    AfterGetDeliveryAction =>
        /\ last.before.deliveryPath # <<>> =>
              last.before.deliveryPath[1] \in Neighbours(myPosition)
        /\ ~ StepUnresolved

\* C20, its case: a Pickup turn on which the rest of the route to the
\* delivery tile is pending, another agent being in sight.
C20_Witness ==
    /\ AfterGetDeliveryAction
    /\ last.ret # Null
    /\ last.ret.action = "pickup"
    /\ deliveryPath # <<>>
    /\ deliveryPath[1] \in Neighbours(myPosition)
    /\ agents # {}
============================================================================
